---- MODULE Spec2Model ----
(***************************************************************************)
(* hello-gpt-notes: the /api/hello route handler (app/api/hello/route.js)  *)
(* and the onSubmit handler of the home page (app/page.js).                *)
(*                                                                         *)
(* Strings are sequences of tokens; a token is one character or a fixed    *)
(* piece of text.  JavaScript values are records [t, n, s]: the type tag,  *)
(* the numeric payload and the string payload.                             *)
(***************************************************************************)
EXTENDS Integers, Sequences, FiniteSets, TLC

\* ------------------------------------------------------------------ bounds
MaxLen == 3

MaxInvocations == 2

MaxTriggers == 2

\* ------------------------------------------------------- JavaScript values
Undefined == [t |-> "undefined", n |-> 0, s |-> <<>>]

Null == [t |-> "null", n |-> 0, s |-> <<>>]

Num(x) == [t |-> "number", n |-> x, s |-> <<>>]

Str(x) == [t |-> "string", n |-> 0, s |-> x]

\* ToBoolean
Truthy(v) ==
  CASE v.t = "number" -> v.n # 0
    [] v.t = "string" -> v.s # <<>>
    [] OTHER -> FALSE

\* a || b
Or(a, b) == IF Truthy(a) THEN a ELSE b

DigitVal(c) ==
  CASE c = "0" -> 0 [] c = "1" -> 1 [] c = "2" -> 2 [] c = "3" -> 3
    [] c = "4" -> 4 [] c = "5" -> 5 [] c = "6" -> 6 [] c = "7" -> 7
    [] c = "8" -> 8 [] c = "9" -> 9

RECURSIVE ParseDecimal(_)
ParseDecimal(s) ==
  IF s = <<>> THEN 0
  ELSE 10 * ParseDecimal(SubSeq(s, 1, Len(s) - 1)) + DigitVal(s[Len(s)])

\* ToNumber followed by the unsigned short conversion of ResponseInit.status
ToUnsignedShort(v) ==
  CASE v.t = "number" -> v.n % 65536
    [] v.t = "string" -> ParseDecimal(v.s) % 65536
    [] OTHER -> 0

\* ------------------------------------------------------------------ strings
Chars == {" ", "\n", "a"}

WhiteSpace == {" ", "\n"}

Strings == UNION {[1..n -> Chars] : n \in 0..MaxLen}

RECURSIVE TrimStart(_)
TrimStart(s) ==
  IF s # <<>> /\ Head(s) \in WhiteSpace THEN TrimStart(Tail(s)) ELSE s

RECURSIVE TrimEnd(_)
TrimEnd(s) ==
  IF s # <<>> /\ s[Len(s)] \in WhiteSpace
  THEN TrimEnd(SubSeq(s, 1, Len(s) - 1)) ELSE s

\* a trim that forgets the end of the string
TrimStartOnly(s) == TrimStart(s)

\* String.prototype.trim
Trim(s) == TrimEnd(TrimStart(s))

\* --------------------------------------------------------------- JSON wire
\* A body on the wire: JSON text carrying a value, or text that is not JSON.
JSONstringify(v) == [json |-> TRUE, val |-> v]

\* ------------------------------------------------- the completion service
Secrets == {"sk-1", "sk-2"}

\* process.env.OPENAI_API_KEY: a secret, or undefined when it is not set
Keys == {Str(<<k>>) : k \in Secrets} \cup {Undefined}

Statuses == {200, 401, 429}

NoUsage ==
  [present |-> FALSE, prompt_tokens |-> 0, completion_tokens |-> 0,
   total_tokens |-> 0]

Usages ==
  {NoUsage,
   [present |-> TRUE, prompt_tokens |-> 1, completion_tokens |-> 2,
    total_tokens |-> 3],
   [present |-> TRUE, prompt_tokens |-> 4, completion_tokens |-> 1,
    total_tokens |-> 5]}

\* choices[0].message.content: undefined stands for every body in which the
\* path choices[0].message.content does not lead to a value.
ContentVals == {Undefined, Null} \cup {Str(s) : s \in Strings}

\* error messages of the service; it may quote the key it was sent
ErrMsgs ==
  {Str(<<"Rate limit reached">>)}
    \cup {Str(<<"Incorrect API key provided: ", k>>) : k \in Secrets}

\* the parsed JSON bodies of the service
UpstreamJson ==
  {[content |-> c, usage |-> u, error |-> Undefined] :
     c \in ContentVals, u \in Usages}
    \cup {[content |-> Undefined, usage |-> NoUsage, error |-> e] :
            e \in ErrMsgs}

EmptyJson == [content |-> Undefined, usage |-> NoUsage, error |-> Undefined]

NotJson == [json |-> FALSE, val |-> EmptyJson]

UpstreamWire == {JSONstringify(v) : v \in UpstreamJson} \cup {NotJson}

\* what fetch(...) and then res.json() can do: fetch rejects, or it resolves
\* with a status and a body
FetchFailed == [threw |-> TRUE, status |-> 0, body |-> NotJson]

Outcomes ==
  {FetchFailed}
    \cup {[threw |-> FALSE, status |-> st, body |-> b] :
            st \in Statuses, b \in UpstreamWire}

\* ------------------------------------------- app/api/hello/route.js: GET
createChatCompletionEndpointURL == "https://api.openai.com/v1/chat/completions"

promptText == <<"Write five variations of \"Hello, World!\" ...">>

createChatCompletionReqParams ==
  [model |-> "gpt-3.5-turbo",
   messages |-> <<[role |-> "user", content |-> promptText]>>]

\* ToString, as applied by the + of a string and a value
ToStringJS(v) ==
  CASE v.t = "string" -> v.s
    [] v.t = "undefined" -> <<"undefined">>
    [] v.t = "null" -> <<"null">>

\* the arguments of the fetch call
FetchArgs(key) ==
  [url |-> createChatCompletionEndpointURL,
   method |-> "POST",
   contentType |-> "application/json",
   Authorization |-> <<"Bearer ">> \o ToStringJS(key),
   body |-> JSONstringify(createChatCompletionReqParams)]

NoRequest ==
  [url |-> "", method |-> "", contentType |-> "", Authorization |-> <<>>,
   body |-> JSONstringify(createChatCompletionReqParams)]

\* the inbound requests of the route: with and without a query string
InboundRequests == {[query |-> <<>>], [query |-> <<"model=gpt-4">>]}

\* error.body: undefined, or the parsed body of the service
NoErrorBody == [defined |-> FALSE, val |-> EmptyJson]

\* what fetch, res.json() and the property reads throw
FetchError ==
  [message |-> "fetch failed", statusCode |-> Undefined, body |-> NoErrorBody]

SyntaxError ==
  [message |-> "Unexpected token in JSON", statusCode |-> Undefined,
   body |-> NoErrorBody]

TypeError ==
  [message |-> "Cannot read properties of undefined", statusCode |-> Undefined,
   body |-> NoErrorBody]

\* the error thrown for a status other than 200
UnsuccessfulError(res, resBody) ==
  [message |-> "Create chat completion request was unsuccessful.",
   statusCode |-> Num(res.status),
   body |-> [defined |-> TRUE, val |-> resBody]]

GenericMessage == <<"An error has occurred">>

\* the two bodies the handler returns
CompletionBody(text) ==
  [completion |-> Str(text), hasError |-> FALSE, message |-> Undefined]

ErrorBody ==
  [completion |-> Undefined, hasError |-> TRUE, message |-> Str(GenericMessage)]

\* new Response(body, { status, headers })
NewResponse(body, status) ==
  [status |-> ToUnsignedShort(status), body |-> body,
   contentType |-> "application/json"]

NoResponse ==
  [status |-> 0, body |-> [json |-> FALSE, val |-> ErrorBody], contentType |-> ""]

NoLog ==
  [kind |-> "none", completion |-> <<>>, usage |-> NoUsage, message |-> "",
   statusCode |-> Undefined, body |-> NoErrorBody]

\* a catch block without the "500" default
CatchBlockNoDefault(error) ==
  [log |-> [kind |-> "error", completion |-> <<>>, usage |-> NoUsage,
            message |-> error.message, statusCode |-> error.statusCode,
            body |-> error.body],
   response |-> NewResponse(JSONstringify(ErrorBody), error.statusCode)]

\* a catch block that returns the message of the error it caught
CatchBlockErrorMessage(error) ==
  [log |-> [kind |-> "error", completion |-> <<>>, usage |-> NoUsage,
            message |-> error.message, statusCode |-> error.statusCode,
            body |-> error.body],
   response |->
     NewResponse(JSONstringify([completion |-> Undefined, hasError |-> TRUE,
                                message |-> Str(<<error.message>>)]),
                 Or(error.statusCode, Str(<<"5", "0", "0">>)))]

\* a catch block that passes on the message of the upstream error body
CatchBlockUpstreamMessage(error) ==
  [log |-> [kind |-> "error", completion |-> <<>>, usage |-> NoUsage,
            message |-> error.message, statusCode |-> error.statusCode,
            body |-> error.body],
   response |->
     NewResponse(JSONstringify([completion |-> Undefined, hasError |-> TRUE,
                                message |-> Or(error.body.val.error,
                                               Str(GenericMessage))]),
                 Or(error.statusCode, Str(<<"5", "0", "0">>)))]

\* a catch block that returns its response without a log entry
CatchBlockSilent(error) ==
  [log |-> NoLog,
   response |->
     NewResponse(JSONstringify(ErrorBody),
                 Or(error.statusCode, Str(<<"5", "0", "0">>)))]

\* the catch block: the log entry and the response
CatchBlock(error) ==
  [log |-> [kind |-> "error", completion |-> <<>>, usage |-> NoUsage,
            message |-> error.message, statusCode |-> error.statusCode,
            body |-> error.body],
   response |->
     NewResponse(JSONstringify(ErrorBody),
                 Or(error.statusCode, Str(<<"5", "0", "0">>)))]

\* the status test
CheckStatus(res) == res.status # 200

\* a try block that returns the content as it came, without .trim()
AfterJsonNoTrim(res, resBody) ==
  IF CheckStatus(res) THEN CatchBlock(UnsuccessfulError(res, resBody))
  ELSE IF resBody.content.t # "string" THEN CatchBlock(TypeError)
  ELSE IF ~resBody.usage.present THEN CatchBlock(TypeError)
  ELSE LET completionText == resBody.content.s
       IN [log |-> [kind |-> "success", completion |-> completionText,
                    usage |-> resBody.usage, message |-> "",
                    statusCode |-> Undefined, body |-> NoErrorBody],
           response |->
             NewResponse(JSONstringify(CompletionBody(completionText)),
                         Num(200))]

\* a try block that reads the completion with optional chaining, so that a
\* missing content gives { completion: undefined } with status 200
AfterJsonOptionalChaining(res, resBody) ==
  IF CheckStatus(res) THEN CatchBlock(UnsuccessfulError(res, resBody))
  ELSE IF ~resBody.usage.present THEN CatchBlock(TypeError)
  ELSE IF resBody.content.t # "string"
  THEN [log |-> [kind |-> "success", completion |-> <<>>,
                 usage |-> resBody.usage, message |-> "",
                 statusCode |-> Undefined, body |-> NoErrorBody],
        response |->
          NewResponse(JSONstringify([completion |-> Undefined,
                                     hasError |-> FALSE,
                                     message |-> Undefined]),
                      Num(200))]
  ELSE LET completionText == Trim(resBody.content.s)
       IN [log |-> [kind |-> "success", completion |-> completionText,
                    usage |-> resBody.usage, message |-> "",
                    statusCode |-> Undefined, body |-> NoErrorBody],
           response |->
             NewResponse(JSONstringify(CompletionBody(completionText)),
                         Num(200))]

\* the try block once res.json() has resolved with resBody
AfterJson(res, resBody) ==
  IF CheckStatus(res) THEN CatchBlock(UnsuccessfulError(res, resBody))
  ELSE IF resBody.content.t # "string" THEN CatchBlock(TypeError)
  ELSE IF ~resBody.usage.present THEN CatchBlock(TypeError)
  ELSE LET completionText == Trim(resBody.content.s)
       IN [log |-> [kind |-> "success", completion |-> completionText,
                    usage |-> resBody.usage, message |-> "",
                    statusCode |-> Undefined, body |-> NoErrorBody],
           response |->
             NewResponse(JSONstringify(CompletionBody(completionText)),
                         Num(200))]

\* a try block that tests the status before it parses the body
AfterFetchStatusFirst(res) ==
  IF CheckStatus(res)
  THEN CatchBlock([message |-> "Create chat completion request was unsuccessful.",
                   statusCode |-> Num(res.status),
                   body |-> [defined |-> res.body.json, val |-> res.body.val]])
  ELSE IF ~res.body.json THEN CatchBlock(SyntaxError)
  ELSE AfterJson(res, res.body.val)

\* the try block once fetch has resolved with res
AfterFetch(res) ==
  IF ~res.body.json THEN CatchBlock(SyntaxError)
  ELSE AfterJson(res, res.body.val)

\* a GET that returns the Authorization header it sent in its error body
GETOutputEchoingHeader(key, outcome) ==
  LET out == IF outcome.threw THEN CatchBlock(FetchError)
             ELSE AfterFetch(outcome)
      body == IF out.response.body.val.hasError
              THEN JSONstringify([completion |-> Undefined, hasError |-> TRUE,
                                  message |-> Str(FetchArgs(key).Authorization)])
              ELSE out.response.body
  IN [request |-> FetchArgs(key), log |-> out.log,
      response |-> [out.response EXCEPT !.body = body]]

\* one whole run of GET with the key of the environment and the outcome of
\* the outbound call
GETOutput(key, outcome) ==
  LET out == IF outcome.threw THEN CatchBlock(FetchError)
             ELSE AfterFetch(outcome)
  IN [request |-> FetchArgs(key), log |-> out.log, response |-> out.response]

\* every response GET can return under a key, over all outcomes of the
\* outbound call
ProxyResponses ==
  [key \in Keys |-> {GETOutput(key, o).response : o \in Outcomes}]

\* ------------------------------------------------- app/page.js: onSubmit
FallbackReply == <<"An error has occurred">>

\* a setReply that reads body.error, an object, in place of its message
ReplyOfErrorObject(response, body) ==
  IF response.status = 200 THEN body.completion
  ELSE [t |-> "object", n |-> 0, s |-> <<>>]

\* a setReply that reads body.completion whatever the status
ReplyOfCompletionOnly(response, body) == body.completion

\* the argument of setReply in the try block; body.error.message throws
\* when the body has no error object, and the catch block then sets the
\* fallback text
ReplyOf(response, body) ==
  IF response.status = 200 THEN body.completion
  ELSE IF body.hasError THEN body.message
  ELSE Str(FallbackReply)

\* a catch block that shows the message of what it caught
CatchReplyThrownMessage == Str(<<"Failed to fetch">>)

\* the catch block of onSubmit
CatchReply == Str(FallbackReply)

NoCall == [pc |-> "idle", response |-> NoResponse, reply |-> Undefined]

\* ----------------------------------------- app/page.js: the result area
\* a result area whose paragraph lacks the class whitespace-pre-line
RenderNormalWhiteSpace(r, loading) ==
  IF loading THEN [shows |-> "Image", whiteSpace |-> "normal", text |-> <<>>]
  ELSE [shows |-> "p", whiteSpace |-> "normal",
        text |-> IF r.t = "string" THEN r.s ELSE <<>>]

\* the element the conditional expression of Home returns: the image of the
\* three dots, or the paragraph with the class whitespace-pre-line and the
\* text reply
Render(r, loading) ==
  IF loading THEN [shows |-> "Image", whiteSpace |-> "normal", text |-> <<>>]
  ELSE [shows |-> "p", whiteSpace |-> "pre-line",
        text |-> IF r.t = "string" THEN r.s ELSE <<>>]

\* white-space processing of the browser: runs of spaces collapse to one
RECURSIVE Collapse(_)
Collapse(s) ==
  IF Len(s) < 2 THEN s
  ELSE IF s[1] = " " /\ s[2] = " " THEN Collapse(Tail(s))
  ELSE <<s[1]>> \o Collapse(Tail(s))

\* a space at the start or the end of a line is removed
RECURSIVE StripAtBreaks(_, _)
StripAtBreaks(s, i) ==
  IF i > Len(s) THEN <<>>
  ELSE IF /\ s[i] = " "
          /\ \/ i = 1
             \/ i = Len(s)
             \/ s[i - 1] = "\n"
             \/ s[i + 1] = "\n"
       THEN StripAtBreaks(s, i + 1)
       ELSE <<s[i]>> \o StripAtBreaks(s, i + 1)

\* white-space: pre-line keeps the line breaks of the text
PreLine(s) == StripAtBreaks(Collapse(s), 1)

\* white-space: normal turns a line break into a space
NormalWhiteSpace(s) ==
  PreLine([i \in 1..Len(s) |-> IF s[i] = "\n" THEN " " ELSE s[i]])

\* the text as the browser lays it out
Layout(el) ==
  IF el.whiteSpace = "pre-line" THEN PreLine(el.text)
  ELSE NormalWhiteSpace(el.text)

\* an invocation of GET among several: its position, the status of its
\* local createChatCompletionRes, and the Response it returned
NoGet == [pc |-> "idle", status |-> 0, response |-> NoResponse]

\* --------------------------------------------------------------- the state
VARIABLES
  OPENAI_API_KEY,           \* process.env.OPENAI_API_KEY
  pc,                       \* position of the GET invocation being followed
  request,                  \* the arguments of its fetch call
  createChatCompletionRes,  \* what its outbound call did
  response,                 \* the Response it returned
  consoleLog,               \* the entry it wrote with console.log
  logCount,                 \* number of entries written with console.log
  invocations,              \* number of invocations of GET
  outboundCalls,            \* number of fetch calls to the completion service
  reply,                    \* useState(""): the reply state of Home
  loadingStatus,            \* useState(false): the loadingStatus state of Home
  calls,                    \* the runs of onSubmit, one per trigger
  settled,                  \* the runs of onSubmit in the order they finished
  submits,                  \* number of submit events of the form
  helloCalls,               \* number of fetch("/api/hello") calls
  gets                      \* the invocations of GET that run side by side

proxyVars ==
  <<pc, request, createChatCompletionRes, response, consoleLog, logCount,
    invocations, outboundCalls>>

clientVars == <<reply, loadingStatus, calls, settled, submits, helloCalls>>

vars == <<OPENAI_API_KEY, proxyVars, clientVars, gets>>

Init ==
  /\ OPENAI_API_KEY \in Keys
  /\ pc = "idle"
  /\ request = NoRequest
  /\ createChatCompletionRes = FetchFailed
  /\ response = NoResponse
  /\ consoleLog = NoLog
  /\ logCount = 0
  /\ invocations = 0
  /\ outboundCalls = 0
  /\ reply = Str(<<>>)
  /\ loadingStatus = FALSE
  /\ calls = [k \in 1..MaxTriggers |-> NoCall]
  /\ settled = <<>>
  /\ submits = 0
  /\ helloCalls = 0
  /\ gets = [i \in 1..MaxInvocations |-> NoGet]

\* ------------------------------------------ GET, one invocation at a time
\* a GET that serves the response of the invocation before it, when there
\* is one, without a fetch
GETInvokeCached ==
  /\ pc \in {"idle", "done"}
  /\ invocations < MaxInvocations
  /\ invocations' = invocations + 1
  /\ IF pc = "done"
     THEN /\ pc' = "done"
          /\ UNCHANGED <<request, outboundCalls, response,
                         createChatCompletionRes, consoleLog>>
     ELSE /\ pc' = "fetch"
          /\ request' = FetchArgs(OPENAI_API_KEY)
          /\ outboundCalls' = outboundCalls + 1
          /\ response' = NoResponse
          /\ createChatCompletionRes' = FetchFailed
          /\ consoleLog' = NoLog
  /\ UNCHANGED <<OPENAI_API_KEY, gets, logCount, clientVars>>

\* a GET that takes the model from the query of the inbound request
GETInvokeForwardingQuery ==
  /\ pc \in {"idle", "done"}
  /\ invocations < MaxInvocations
  /\ pc' = "fetch"
  /\ \E inbound \in InboundRequests :
       request' =
         [FetchArgs(OPENAI_API_KEY) EXCEPT
            !.body = JSONstringify(
              [createChatCompletionReqParams EXCEPT
                 !.model = IF inbound.query = <<>> THEN "gpt-3.5-turbo"
                           ELSE "gpt-4"])]
  /\ invocations' = invocations + 1
  /\ outboundCalls' = outboundCalls + 1
  /\ response' = NoResponse
  /\ createChatCompletionRes' = FetchFailed
  /\ consoleLog' = NoLog
  /\ UNCHANGED <<OPENAI_API_KEY, gets, logCount, clientVars>>

\* GET is invoked: it builds the request and awaits fetch. GET() declares no
\* parameter, so the inbound request is not read.
GETInvoke ==
  /\ pc \in {"idle", "done"}
  /\ invocations < MaxInvocations
  /\ pc' = "fetch"
  /\ \E inbound \in InboundRequests : request' = FetchArgs(OPENAI_API_KEY)
  /\ invocations' = invocations + 1
  /\ outboundCalls' = outboundCalls + 1
  /\ response' = NoResponse
  /\ createChatCompletionRes' = FetchFailed
  /\ consoleLog' = NoLog
  /\ UNCHANGED <<OPENAI_API_KEY, gets, logCount, clientVars>>

\* the catch block runs with out, and GET returns
GETReturns(out) ==
  /\ pc' = "done"
  /\ response' = out.response
  /\ consoleLog' = out.log
  /\ logCount' = logCount + (IF out.log.kind = "none" THEN 0 ELSE 1)
  /\ UNCHANGED <<OPENAI_API_KEY, gets, request, invocations, outboundCalls, clientVars>>

\* fetch rejects: no response of the service was received
FetchRejects ==
  /\ pc = "fetch"
  /\ createChatCompletionRes' = FetchFailed
  /\ GETReturns(GETOutput(OPENAI_API_KEY, FetchFailed))

\* fetch resolves with a status and a body; GET awaits res.json()
FetchResolves ==
  /\ pc = "fetch"
  /\ \E st \in Statuses, b \in UpstreamWire :
       createChatCompletionRes' = [threw |-> FALSE, status |-> st, body |-> b]
  /\ pc' = "json"
  /\ UNCHANGED <<OPENAI_API_KEY, gets, request, response, consoleLog, logCount,
                 invocations, outboundCalls, clientVars>>

\* res.json() settles and the rest of GET runs to its return
JsonSettles ==
  /\ pc = "json"
  /\ UNCHANGED createChatCompletionRes
  /\ GETReturns(GETOutput(OPENAI_API_KEY, createChatCompletionRes))

NextProxy == GETInvoke \/ FetchRejects \/ FetchResolves \/ JsonSettles

SpecProxy == Init /\ [][NextProxy]_vars

\* -------------------------------------- GET, invocations side by side
\* Invocations interleave at their awaits. fetch resolves when the status
\* line and the headers are in; the body arrives within res.json(). Every
\* name of GET is a const of the function body, so each invocation has its
\* own; createChatCompletionRes, the variable, is here the Response that
\* whichever fetch resolved last.
\* a createChatCompletionRes declared at module level, shared by the
\* invocations
SharedRes(i) == createChatCompletionRes

OwnRes(i) == [threw |-> FALSE, status |-> gets[i].status, body |-> NotJson]

GETInvokeC(i) ==
  /\ i = invocations + 1
  /\ i <= MaxInvocations
  /\ gets' = [gets EXCEPT ![i].pc = "fetch"]
  /\ \E inbound \in InboundRequests : request' = FetchArgs(OPENAI_API_KEY)
  /\ invocations' = invocations + 1
  /\ outboundCalls' = outboundCalls + 1
  /\ UNCHANGED <<OPENAI_API_KEY, pc, createChatCompletionRes, response,
                 consoleLog, logCount, clientVars>>

GETReturnsC(i, out) ==
  /\ gets' = [gets EXCEPT ![i].pc = "done", ![i].response = out.response]
  /\ logCount' = logCount + (IF out.log.kind = "none" THEN 0 ELSE 1)
  /\ UNCHANGED <<OPENAI_API_KEY, pc, request, createChatCompletionRes, response,
                 consoleLog, invocations, outboundCalls, clientVars>>

FetchRejectsC(i) ==
  /\ gets[i].pc = "fetch"
  /\ GETReturnsC(i, GETOutput(OPENAI_API_KEY, FetchFailed))

FetchResolvesC(i) ==
  /\ gets[i].pc = "fetch"
  /\ \E st \in Statuses :
       /\ gets' = [gets EXCEPT ![i].pc = "json", ![i].status = st]
       /\ createChatCompletionRes' =
            [threw |-> FALSE, status |-> st, body |-> NotJson]
  /\ UNCHANGED <<OPENAI_API_KEY, pc, request, response, consoleLog, logCount,
                 invocations, outboundCalls, clientVars>>

\* what GET does once res.json() has settled, over all bodies, by key and
\* by the status of res: the response, and whether a log entry is written
GETOutputsFor ==
  [key \in Keys, st \in Statuses |->
     {LET out == GETOutput(key, [threw |-> FALSE, status |-> st, body |-> b])
      IN [log |-> [kind |-> out.log.kind], response |-> out.response] :
        b \in UpstreamWire}]

JsonSettlesC(i) ==
  /\ gets[i].pc = "json"
  /\ \E out \in GETOutputsFor[OPENAI_API_KEY, OwnRes(i).status] :
       GETReturnsC(i, out)

NextConcurrent ==
  \/ \E i \in 1..MaxInvocations : GETInvokeC(i)
  \/ \E i \in 1..MaxInvocations : FetchRejectsC(i)
  \/ \E i \in 1..MaxInvocations : FetchResolvesC(i)
  \/ \E i \in 1..MaxInvocations : JsonSettlesC(i)

SpecConcurrent == Init /\ [][NextConcurrent]_vars

\* ----------------------------------- Home calling /api/hello, end to end
Triggers == Cardinality({k \in 1..MaxTriggers : calls[k].pc # "idle"})

InFlight(k) == calls[k].pc \in {"fetch", "json"}

\* an onSubmit that does not call setLoadingStatus(true)
TriggerNoLoading ==
  /\ submits < MaxTriggers
  /\ calls' = [calls EXCEPT ![Triggers + 1].pc = "fetch"]
  /\ submits' = submits + 1
  /\ helloCalls' = helloCalls + 1
  /\ UNCHANGED <<OPENAI_API_KEY, gets, proxyVars, reply, loadingStatus, settled>>

\* an onSubmit that clears reply before it fetches
TriggerClearsReply ==
  /\ submits < MaxTriggers
  /\ loadingStatus' = TRUE
  /\ reply' = Str(<<>>)
  /\ calls' = [calls EXCEPT ![Triggers + 1].pc = "fetch"]
  /\ submits' = submits + 1
  /\ helloCalls' = helloCalls + 1
  /\ UNCHANGED <<OPENAI_API_KEY, gets, proxyVars, settled>>

\* an onSubmit that returns at once while loadingStatus is true
TriggerGuarded ==
  /\ submits < MaxTriggers
  /\ submits' = submits + 1
  /\ IF loadingStatus
     THEN UNCHANGED <<loadingStatus, calls, helloCalls>>
     ELSE /\ loadingStatus' = TRUE
          /\ calls' = [calls EXCEPT ![Triggers + 1].pc = "fetch"]
          /\ helloCalls' = helloCalls + 1
  /\ UNCHANGED <<OPENAI_API_KEY, gets, proxyVars, reply, settled>>

\* an onSubmit that takes no submit while the fallback text is shown
TriggerBlockedAfterError ==
  /\ submits < MaxTriggers
  /\ reply # Str(FallbackReply)
  /\ loadingStatus' = TRUE
  /\ calls' = [calls EXCEPT ![Triggers + 1].pc = "fetch"]
  /\ submits' = submits + 1
  /\ helloCalls' = helloCalls + 1
  /\ UNCHANGED <<OPENAI_API_KEY, gets, proxyVars, reply, settled>>

\* the form is submitted: onSubmit runs up to its await of fetch
Trigger ==
  /\ submits < MaxTriggers
  /\ loadingStatus' = TRUE
  /\ calls' = [calls EXCEPT ![Triggers + 1].pc = "fetch"]
  /\ submits' = submits + 1
  /\ helloCalls' = helloCalls + 1
  /\ UNCHANGED <<OPENAI_API_KEY, gets, proxyVars, reply, settled>>

\* GET runs for call k, with its one outbound call, and returns a Response;
\* the fetch of onSubmit resolves with it and onSubmit awaits response.json()
HelloResponds(k) ==
  /\ calls[k].pc = "fetch"
  /\ \E r \in ProxyResponses[OPENAI_API_KEY] :
       calls' = [calls EXCEPT ![k].pc = "json", ![k].response = r]
  /\ invocations' = invocations + 1
  /\ outboundCalls' = outboundCalls + 1
  /\ UNCHANGED <<OPENAI_API_KEY, gets, pc, request, createChatCompletionRes, response,
                 consoleLog, logCount, reply, loadingStatus, settled,
                 submits, helloCalls>>

\* an onSubmit that drops the result of every call but the one issued last
SettleLatestIssued(k, r) ==
  /\ reply' = IF k = Triggers THEN r ELSE reply
  /\ loadingStatus' = FALSE
  /\ calls' = [calls EXCEPT ![k].pc = "done", ![k].reply = r]
  /\ settled' = Append(settled, k)
  /\ UNCHANGED <<OPENAI_API_KEY, gets, proxyVars, submits, helloCalls>>

\* an onSubmit with setLoadingStatus(false) at the end of the try block
SettleResetInTry(k, r) ==
  /\ reply' = r
  /\ loadingStatus' = IF r = CatchReply THEN loadingStatus ELSE FALSE
  /\ calls' = [calls EXCEPT ![k].pc = "done", ![k].reply = r]
  /\ settled' = Append(settled, k)
  /\ UNCHANGED <<OPENAI_API_KEY, gets, proxyVars, submits, helloCalls>>

\* onSubmit runs from a settled await to its end with the argument of
\* setReply
Settle(k, r) ==
  /\ reply' = r
  /\ loadingStatus' = FALSE
  /\ calls' = [calls EXCEPT ![k].pc = "done", ![k].reply = r]
  /\ settled' = Append(settled, k)
  /\ UNCHANGED <<OPENAI_API_KEY, gets, proxyVars, submits, helloCalls>>

\* an onSubmit without its catch block: the rejection ends the run before
\* setLoadingStatus(false)
FetchRejectsUncaught(k) ==
  /\ calls[k].pc = "fetch"
  /\ calls' = [calls EXCEPT ![k].pc = "done", ![k].reply = reply]
  /\ settled' = Append(settled, k)
  /\ UNCHANGED <<OPENAI_API_KEY, gets, proxyVars, reply, loadingStatus, submits,
                 helloCalls>>

\* the fetch of onSubmit rejects
ClientFetchRejects(k) ==
  /\ calls[k].pc = "fetch"
  /\ Settle(k, CatchReply)

\* response.json() resolves
ClientJsonResolves(k) ==
  /\ calls[k].pc = "json"
  /\ calls[k].response.body.json
  /\ Settle(k, ReplyOf(calls[k].response, calls[k].response.body.val))

\* response.json() rejects: the body is not JSON or cannot be read
ClientJsonRejects(k) ==
  /\ calls[k].pc = "json"
  /\ Settle(k, CatchReply)

Next ==
  \/ Trigger
  \/ \E k \in 1..MaxTriggers : HelloResponds(k)
  \/ \E k \in 1..MaxTriggers : ClientFetchRejects(k)
  \/ \E k \in 1..MaxTriggers : ClientJsonResolves(k)
  \/ \E k \in 1..MaxTriggers : ClientJsonRejects(k)

Spec == Init /\ [][Next]_vars

\* Home calling /api/hello when every call that was issued settles: the
\* fetch of run k resolves or rejects, and so does its response.json().
\* The submits stop by themselves, at MaxTriggers.
Fairness ==
  \A k \in 1..MaxTriggers :
    WF_vars(\/ HelloResponds(k)
            \/ ClientFetchRejects(k)
            \/ ClientJsonResolves(k)
            \/ ClientJsonRejects(k))

FairSpec == Init /\ [][Next]_vars /\ Fairness

\* ------------------------------------ onSubmit, statement by statement
\* The statements onSubmit runs, in program order, once its awaits have
\* settled and r is the argument of setReply. They run without a yield, so
\* no other run and no submit comes between them; a render may.
\* statements after the awaits, with setLoadingStatus(false) placed first
AfterAwaitLoadingFirst(r) ==
  <<[set |-> "loadingStatus", reply |-> r, loadingStatus |-> FALSE],
    [set |-> "reply", reply |-> r, loadingStatus |-> FALSE]>>

AfterAwait(r) ==
  <<[set |-> "reply", reply |-> r, loadingStatus |-> FALSE],
    [set |-> "loadingStatus", reply |-> r, loadingStatus |-> FALSE]>>

\* one state setter is called
ExecStatement(st) ==
  IF st.set = "reply"
  THEN reply' = st.reply /\ UNCHANGED loadingStatus
  ELSE loadingStatus' = st.loadingStatus /\ UNCHANGED reply

\* some run is between its two statements
Busy == \E k \in 1..MaxTriggers : calls[k].pc = "s2"

\* the awaits of run k have settled with r: its first statement runs
FirstStatement(k, r) ==
  /\ ExecStatement(AfterAwait(r)[1])
  /\ calls' = [calls EXCEPT ![k].pc = "s2", ![k].reply = r]
  /\ UNCHANGED <<OPENAI_API_KEY, gets, proxyVars, settled, submits, helloCalls>>

\* the second statement of run k runs and onSubmit returns
SecondStatement(k) ==
  /\ calls[k].pc = "s2"
  /\ ExecStatement(AfterAwait(calls[k].reply)[2])
  /\ calls' = [calls EXCEPT ![k].pc = "done"]
  /\ settled' = Append(settled, k)
  /\ UNCHANGED <<OPENAI_API_KEY, gets, proxyVars, submits, helloCalls>>

FetchRejectsStmt(k) ==
  /\ calls[k].pc = "fetch"
  /\ FirstStatement(k, CatchReply)

JsonResolvesStmt(k) ==
  /\ calls[k].pc = "json"
  /\ calls[k].response.body.json
  /\ FirstStatement(k, ReplyOf(calls[k].response, calls[k].response.body.val))

JsonRejectsStmt(k) ==
  /\ calls[k].pc = "json"
  /\ FirstStatement(k, CatchReply)

NextStatements ==
  \/ ~Busy /\ Trigger
  \/ \E k \in 1..MaxTriggers : ~Busy /\ HelloResponds(k)
  \/ \E k \in 1..MaxTriggers : ~Busy /\ FetchRejectsStmt(k)
  \/ \E k \in 1..MaxTriggers : ~Busy /\ JsonResolvesStmt(k)
  \/ \E k \in 1..MaxTriggers : ~Busy /\ JsonRejectsStmt(k)
  \/ \E k \in 1..MaxTriggers : SecondStatement(k)

SpecStatements == Init /\ [][NextStatements]_vars

\* ================================================================ claims
\* the invocation being followed has returned
Returned == pc = "done"

\* the outbound call of that invocation
upstream == createChatCompletionRes

\* the service answered with status 200 and the documented body: a string
\* at choices[0].message.content and a usage object
WellFormed200(o) ==
  /\ ~o.threw
  /\ o.status = 200
  /\ o.body.json
  /\ o.body.val.content.t = "string"
  /\ o.body.val.usage.present

\* t is s without its leading and trailing whitespace
IsTrimOf(t, s) ==
  /\ t # <<>> => (t[1] \notin WhiteSpace /\ t[Len(t)] \notin WhiteSpace)
  /\ \E i \in 0..Len(s) :
       /\ i + Len(t) <= Len(s)
       /\ SubSeq(s, i + 1, i + Len(t)) = t
       /\ \A p \in 1..Len(s) :
            (p <= i \/ p > i + Len(t)) => s[p] \in WhiteSpace

\* C1: whenever the outbound call returned a status S other than 200, GET
\* returns status S and the body { error: { message: "An error has
\* occurred" } }, whatever the body of the service was.
C1_NonOkStatusReturned ==
  (Returned /\ ~upstream.threw /\ upstream.status # 200)
    => /\ response.status = upstream.status
       /\ response.body = JSONstringify(ErrorBody)

\* C2: whenever the outbound call returned status 200 with a well-formed
\* body, GET returns status 200 and { completion: t }, t being
\* choices[0].message.content without its leading and trailing whitespace.
C2_TrimmedCompletion ==
  (Returned /\ WellFormed200(upstream))
    => /\ response.status = 200
       /\ response.body.json
       /\ ~response.body.val.hasError
       /\ response.body.val.completion.t = "string"
       /\ IsTrimOf(response.body.val.completion.s, upstream.body.val.content.s)

C2_Witness ==
  /\ Returned
  /\ WellFormed200(upstream)
  /\ upstream.body.val.content.s = <<" ", "a", "\n">>
  /\ response.status = 200
  /\ response.body.val.completion = Str(<<"a">>)

\* C4: on every failure path of GET the returned status is the status of
\* the outbound call whenever that call produced one, and 500 only when
\* no status is known.
C4_FailureStatus ==
  (Returned /\ response.body.val.hasError)
    => response.status = (IF upstream.threw THEN 500 ELSE upstream.status)

\* C5: whenever the outbound call throws before a status is received, GET
\* returns status 500 and the body { error: { message: "An error has
\* occurred" } }.
C5_ThrowGives500 ==
  (Returned /\ upstream.threw)
    => /\ response.status = 500
       /\ response.body.json
       /\ response.body.val.hasError
       /\ response.body.val.message = Str(<<"An error has occurred">>)
       /\ response.body.val.completion.t = "undefined"

C5_Witness ==
  /\ Returned
  /\ upstream.threw
  /\ consoleLog.message = "fetch failed"
  /\ response.status = 500

\* the strings of a body returned by GET hold no secret
SecretFree(body) ==
  \A i \in 1..Len(body.val.completion.s) \cup 1..Len(body.val.message.s) :
    /\ i <= Len(body.val.completion.s) => body.val.completion.s[i] \notin Secrets
    /\ i <= Len(body.val.message.s) => body.val.message.s[i] \notin Secrets

\* C7: the body GET returns holds no secret, and it is the body GET returns
\* under any other value of the secret for the same outcome of the
\* outbound call.
C7_BodyIndependentOfSecret ==
  Returned
    => /\ SecretFree(response.body)
       /\ \A key \in Keys :
            GETOutput(key, upstream).response.body = response.body

C7_Witness ==
  /\ Returned
  /\ OPENAI_API_KEY = Str(<<"sk-1">>)
  /\ request.Authorization = <<"Bearer ", "sk-1">>
  /\ upstream.status = 401
  /\ upstream.body.json
  /\ upstream.body.val.error = Str(<<"Incorrect API key provided: ", "sk-1">>)
  /\ response.body.val.message = Str(GenericMessage)

\* the causes of failure: no response, a status other than 200, a body that
\* is not JSON, a 200 body without the completion text or the usage object
Failing(o) ==
  \/ o.threw
  \/ o.status # 200
  \/ ~o.body.json
  \/ o.body.val.content.t # "string"
  \/ ~o.body.val.usage.present

\* C8: every failing invocation of GET returns the one body
\* { error: { message: "An error has occurred" } }, whatever the cause and
\* however many invocations came before.
C8_OneErrorBody ==
  (Returned /\ Failing(upstream))
    => response.body =
         [json |-> TRUE,
          val |-> [completion |-> Undefined, hasError |-> TRUE,
                   message |-> Str(<<"An error has occurred">>)]]

C8_Witness ==
  /\ Returned
  /\ invocations = 2
  /\ upstream.status = 200
  /\ upstream.body.json
  /\ upstream.body.val.content.t = "undefined"
  /\ response.body.val.hasError

\* the runs of onSubmit that finished, and the last of them
Done(k) == calls[k].pc = "done"

LastSettled == settled[Len(settled)]

\* C3: loadingStatus is true exactly when some call started by a trigger
\* has not yet had its result handled by onSubmit.
C3_LoadingIffInFlight ==
  loadingStatus <=> (\E k \in 1..MaxTriggers : InFlight(k))

\* C6: a trigger during a call in flight cancels and suppresses nothing:
\* every call that left flight did so by its own settlement, once; and reply
\* holds the result of the call that settled last, whatever the order of
\* issue.
C6_LastSettledWins ==
  /\ \A k \in 1..MaxTriggers :
       Done(k) <=> Cardinality({i \in 1..Len(settled) : settled[i] = k}) = 1
  /\ \A i \in 1..Len(settled) : settled[i] \in 1..MaxTriggers
  /\ settled # <<>> => reply = calls[LastSettled].reply

C6_Witness ==
  /\ settled = <<2, 1>>
  /\ calls[1].reply = Str(<<"a">>)
  /\ calls[2].reply = Str(FallbackReply)
  /\ reply = Str(<<"a">>)

\* C9: the step in which a call of onSubmit settles, with a 200 response,
\* another response or a thrown failure, leaves loadingStatus false.
C9_SettleClearsLoading ==
  [][\A k \in 1..MaxTriggers :
       (InFlight(k) /\ calls'[k].pc = "done") => loadingStatus' = FALSE]_vars

C9_Witness ==
  /\ Len(settled) = 2
  /\ calls[1].response.status = 429
  /\ calls[2].response = NoResponse
  /\ \A k \in 1..2 : Done(k)
  /\ ~loadingStatus

\* C10: in the state right after a trigger is handled, the call it issued is
\* in flight and loadingStatus is true.
C10_TriggerSetsLoading ==
  [][Triggers' > Triggers
       => (loadingStatus' /\ calls'[Triggers'].pc = "fetch")]_vars

C10_Witness ==
  /\ Triggers = 2
  /\ Done(1)
  /\ calls[2].pc = "fetch"
  /\ loadingStatus

\* C11: when the call of onSubmit cannot be completed (fetch rejects, or
\* reading the body as JSON rejects), reply is set to exactly "An error has
\* occurred" and loadingStatus is then false.
C11_FailureSetsFallback ==
  [][\A k \in 1..MaxTriggers :
       (ClientFetchRejects(k) \/ ClientJsonRejects(k))
         => /\ reply' = Str(<<"An error has occurred">>)
            /\ loadingStatus' = FALSE]_vars

C11_Witness ==
  /\ Done(1) /\ calls[1].response = NoResponse
  /\ Done(2) /\ calls[2].response.status = 200
  /\ calls[2].response.body.val.completion = Str(<<"a">>)
  /\ calls[2].reply = Str(<<"An error has occurred">>)
  /\ reply = Str(<<"An error has occurred">>)
  /\ ~loadingStatus

\* C12: when onSubmit has received and read a response, reply is set to the
\* completion field of the body if the status is 200, and to the
\* error.message field of the body for every other status.
C12_ReplyFromBody ==
  [][\A k \in 1..MaxTriggers :
       ClientJsonResolves(k)
         => reply' = (IF calls[k].response.status = 200
                      THEN calls[k].response.body.val.completion
                      ELSE calls[k].response.body.val.message)]_vars

C12_Witness ==
  /\ settled = <<1, 2>>
  /\ calls[1].response.status = 429
  /\ calls[1].reply = calls[1].response.body.val.message
  /\ calls[2].response.status = 200
  /\ calls[2].response.body.val.completion = Str(<<"a", "\n", "a">>)
  /\ reply = Str(<<"a", "\n", "a">>)

\* C13: the trigger step leaves reply as it is; reply changes only in the
\* step in which a call settles, so between a trigger and the settlement of
\* its call reply keeps the value it had.
C13_ReplyOnlyOnSettle ==
  [][/\ submits' > submits => reply' = reply
     /\ reply' # reply
          => \E k \in 1..MaxTriggers :
               InFlight(k) /\ calls'[k].pc = "done" /\ reply' = calls'[k].reply]_vars

C13_Witness ==
  /\ submits = 2
  /\ settled = <<1>>
  /\ calls[1].reply = Str(<<"a">>)
  /\ InFlight(2)
  /\ reply = Str(<<"a">>)

\* C14: every invocation of GET issues exactly one outbound call: the
\* number of outbound calls equals the number of invocations, and an
\* invocation has no response before its own outbound call has settled
\* (nothing is served from a cache or from an earlier invocation).
C14_OneOutboundCallPerInvocation ==
  /\ outboundCalls = invocations
  /\ pc = "idle" <=> invocations = 0
  /\ pc \in {"fetch", "json"} => response = NoResponse
  /\ pc # "idle" => request.url = "https://api.openai.com/v1/chat/completions"

C14_Witness ==
  /\ invocations = 2
  /\ outboundCalls = 2
  /\ pc = "json"
  /\ upstream.status = 200
  /\ response = NoResponse

\* C15: every submit event issues exactly one call to /api/hello, also
\* while loadingStatus is true: the number of calls issued equals the number
\* of submit events, every call issued is in flight or has settled once,
\* and a submit event is taken whatever loadingStatus is.
C15_OneCallPerTrigger ==
  /\ helloCalls = submits
  /\ Triggers = submits
  /\ \A k \in 1..MaxTriggers : k <= submits <=> calls[k].pc # "idle"
  /\ Cardinality({k \in 1..MaxTriggers : InFlight(k)}) + Len(settled) = helloCalls
  /\ submits < MaxTriggers => ENABLED Trigger

C15_Witness ==
  /\ submits = 2
  /\ helloCalls = 2
  /\ InFlight(1)
  /\ InFlight(2)
  /\ loadingStatus

\* a run of onSubmit that ended in a failure: no response, a response with
\* a status other than 200, or a body that could not be read
FailedCall(k) ==
  /\ Done(k)
  /\ \/ calls[k].response.status # 200
     \/ calls[k].reply # calls[k].response.body.val.completion

\* C16: after any failure both components take the next request: a submit
\* after a failed run of onSubmit sets loadingStatus to true and issues a
\* new call, and GET, having returned an error to one call, still runs for
\* the next one with an outbound call of its own and can return a
\* completion.
C16_ReadyAfterFailure ==
  (\E j \in 1..MaxTriggers : FailedCall(j))
    => /\ submits < MaxTriggers
            => ENABLED (/\ Trigger
                        /\ loadingStatus'
                        /\ helloCalls' = helloCalls + 1
                        /\ calls'[submits + 1].pc = "fetch")
       /\ \A k \in 1..MaxTriggers :
            calls[k].pc = "fetch"
              => ENABLED (/\ HelloResponds(k)
                          /\ outboundCalls' = outboundCalls + 1
                          /\ calls'[k].response.status = 200)

C16_Witness ==
  /\ settled = <<1, 2>>
  /\ calls[1].response.status = 401
  /\ calls[1].reply = Str(<<"An error has occurred">>)
  /\ calls[2].response.status = 200
  /\ calls[2].reply = Str(<<"a">>)
  /\ outboundCalls = 2
  /\ ~loadingStatus

\* the text of the upstream error bodies and of the errors thrown in GET
ErrorDetail ==
  UNION {{e.s[i] : i \in 1..Len(e.s)} : e \in ErrMsgs}
    \cup {FetchError.message, SyntaxError.message, TypeError.message,
          "Create chat completion request was unsuccessful."}

\* the tokens of a JavaScript value that is a string
TokensOf(v) == IF v.t = "string" THEN {v.s[i] : i \in 1..Len(v.s)} ELSE {}

\* C17: end to end, whenever GET answers a call of onSubmit with a failure
\* (an upstream rejection, a failed outbound call, a body it could not read),
\* the body it returns is { error: { message: "An error has occurred" } }
\* and holds nothing of the upstream error body or of the thrown message,
\* and the reply onSubmit sets from it is exactly "An error has occurred".
C17_GenericErrorEndToEnd ==
  \A k \in 1..MaxTriggers :
    (calls[k].pc \in {"json", "done"} /\ calls[k].response.status >= 400)
      => /\ calls[k].response.body.json
         /\ calls[k].response.body.val.message = Str(<<"An error has occurred">>)
         /\ calls[k].response.body.val.completion = Undefined
         /\ TokensOf(calls[k].response.body.val.message) \cap ErrorDetail = {}
         /\ Done(k)
              => /\ calls[k].reply = Str(<<"An error has occurred">>)
                 /\ TokensOf(calls[k].reply) \cap ErrorDetail = {}
                 /\ LastSettled = k => reply = Str(<<"An error has occurred">>)

C17_Witness ==
  /\ settled = <<2, 1>>
  /\ calls[1].response.status = 401
  /\ calls[2].response.status = 500
  /\ calls[1].reply = Str(<<"An error has occurred">>)
  /\ calls[2].reply = Str(<<"An error has occurred">>)
  /\ reply = Str(<<"An error has occurred">>)
  /\ OPENAI_API_KEY = Str(<<"sk-1">>)

\* the text of a log entry: the completion of the success entry, and the
\* message and the serialized body of the error entry
LogText(log) ==
  {log.completion[i] : i \in 1..Len(log.completion)}
    \cup {log.message}
    \cup TokensOf(log.body.val.content)
    \cup TokensOf(log.body.val.error)

\* C18: the entry GET writes with console.log, for success or for failure,
\* never holds the secret, whatever the outbound call returned.
C18_LogSecretFree ==
  Returned => LogText(consoleLog) \cap TokensOf(OPENAI_API_KEY) = {}

C20_KeyFailureIsUpstreamStatus ==
  /\ pc # "idle"
       => /\ outboundCalls = invocations
          /\ request.Authorization = <<"Bearer ">> \o ToStringJS(OPENAI_API_KEY)
  /\ pc \in {"fetch", "json"} => response = NoResponse
  /\ (Returned /\ ~upstream.threw /\ upstream.status # 200)
       => response = NewResponse(JSONstringify(ErrorBody), Num(upstream.status))

\* C21: within one run of onSubmit the write to reply comes before
\* loadingStatus is set back to false, whether the run ends in the try
\* block with status 200, with another status, or in the catch block: the
\* first statement after the awaits writes reply and leaves loadingStatus
\* alone, the step that ends the run leaves reply alone, and so, with a
\* single submit, in the first state where loadingStatus is false again
\* reply is what that call passed to setReply.
C21_ReplyBeforeLoadingCleared ==
  [][\A k \in 1..MaxTriggers :
       /\ (calls[k].pc \in {"fetch", "json"} /\ calls'[k].pc # calls[k].pc
             /\ calls'[k].pc # "json")
            => /\ calls'[k].pc = "s2"
               /\ reply' = calls'[k].reply
               /\ loadingStatus' = loadingStatus
       /\ (calls[k].pc # "done" /\ calls'[k].pc = "done")
            => /\ calls[k].pc = "s2"
               /\ reply' = reply
               /\ ~loadingStatus'
               /\ submits = 1 => (loadingStatus /\ reply' = calls[1].reply)]_vars

C21_Witness ==
  /\ submits = 1
  /\ calls[1].pc = "s2"
  /\ calls[1].response.status = 200
  /\ reply = Str(<<"a">>)
  /\ reply = calls[1].reply
  /\ loadingStatus

\* C22: the outbound request GET builds is the same in every invocation,
\* whatever the inbound request: a POST to the completions endpoint whose
\* body has model "gpt-3.5-turbo" and exactly one message, with role "user"
\* and the fixed prompt, and whose Authorization header is "Bearer "
\* followed by the configured secret.
C22_FixedOutboundRequest ==
  pc # "idle"
    => /\ request.method = "POST"
       /\ request.url = "https://api.openai.com/v1/chat/completions"
       /\ request.contentType = "application/json"
       /\ request.body.json
       /\ request.body.val.model = "gpt-3.5-turbo"
       /\ Len(request.body.val.messages) = 1
       /\ request.body.val.messages[1] = [role |-> "user", content |-> promptText]
       /\ OPENAI_API_KEY.t = "string"
            => request.Authorization = <<"Bearer ">> \o OPENAI_API_KEY.s

C22_Witness ==
  /\ invocations = 2
  /\ pc = "fetch"
  /\ OPENAI_API_KEY = Str(<<"sk-2">>)
  /\ request.Authorization = <<"Bearer ", "sk-2">>
  /\ request.body.val.model = "gpt-3.5-turbo"

NoSpaces(s) == SelectSeq(s, LAMBDA c : c # " ")

\* C24: the result area is a function of reply and loadingStatus alone.
\* While loadingStatus is true it is the loading indicator and reply is not
\* in it; while loadingStatus is false it is the paragraph whose text is
\* exactly reply, laid out with every line break of reply in place.
C24_ResultArea ==
  LET el == Render(reply, loadingStatus)
  IN /\ loadingStatus => (el.shows = "Image" /\ el.text = <<>>)
     /\ ~loadingStatus
          => /\ el.shows = "p"
             /\ el.text = reply.s
             /\ NoSpaces(Layout(el)) = NoSpaces(reply.s)

C24_Witness ==
  /\ ~loadingStatus
  /\ settled = <<1>>
  /\ reply = Str(<<"a", "\n", "a">>)
  /\ Layout(Render(reply, loadingStatus)) = <<"a", "\n", "a">>

\* C25: logging does not change the response of GET: when the service
\* answered 200 with a string at choices[0].message.content, GET returns
\* the same status and body whether or not the body carries the usage
\* object.
C25_ResponseIndependentOfUsage ==
  (/\ Returned
   /\ ~upstream.threw
   /\ upstream.status = 200
   /\ upstream.body.json
   /\ upstream.body.val.content.t = "string")
    => \A u \in Usages :
         LET other == [upstream EXCEPT !.body.val.usage = u]
             out == GETOutput(OPENAI_API_KEY, other).response
         IN /\ out.status = response.status
            /\ out.body = response.body

\* C26: in every response of GET the status is 200 exactly when the body
\* is { completion: <string> }, and it is another status exactly when the
\* body is { error: { message: "An error has occurred" } }; when the
\* service answered 200 without a string at choices[0].message.content the
\* status is 500, never 200 with an error body.
C26_StatusMatchesBodyShape ==
  Returned
    => /\ response.body.json
       /\ response.status = 200
            <=> /\ response.body.val.completion.t = "string"
                /\ ~response.body.val.hasError
                /\ response.body.val.message = Undefined
       /\ response.status # 200
            <=> response.body.val =
                  [completion |-> Undefined, hasError |-> TRUE,
                   message |-> Str(<<"An error has occurred">>)]
       /\ (/\ ~upstream.threw
           /\ upstream.status = 200
           /\ upstream.body.json
           /\ upstream.body.val.content.t # "string")
            => (response.status = 500 /\ response.body.val.hasError)

C26_Witness ==
  /\ Returned
  /\ upstream.status = 200
  /\ upstream.body.json
  /\ upstream.body.val.content = Null
  /\ upstream.body.val.usage.present
  /\ response.status = 500
  /\ response.body.val.hasError

\* C27: GET parses the body of the service as JSON before it looks at the
\* status, so a status S other than 200 is passed on only when the body
\* parsed; with a body that is not JSON the parse error is what the catch
\* block gets, and GET returns 500.
C27_ParseBeforeStatus ==
  (Returned /\ ~upstream.threw /\ upstream.status # 200)
    => IF upstream.body.json
       THEN /\ response.status = upstream.status
            /\ consoleLog.statusCode = Num(upstream.status)
       ELSE /\ response.status = 500
            /\ consoleLog.statusCode = Undefined
            /\ consoleLog.message = SyntaxError.message

C27_Witness ==
  /\ Returned
  /\ upstream.status = 429
  /\ ~upstream.body.json
  /\ response.status = 500
  /\ consoleLog.kind = "error"
  /\ consoleLog.message = "Unexpected token in JSON"

\* C28: when every issued call settles and the submits stop, every submit
\* is followed by a state in which no call is in flight, loadingStatus is
\* false and every run of onSubmit that was started has ended (such a
\* state comes again and again, so it comes after each submit), and every
\* call to GET is answered once, with one run of GET for each response
\* received.
\* Nothing but the settling of its call moves a run on: there is no
\* timeout, so a call that never settles leaves its run waiting and
\* loadingStatus is not cleared by that run.
C28_EverySubmitSettles ==
  /\ []<>(/\ \A k \in 1..MaxTriggers : ~InFlight(k)
          /\ ~loadingStatus
          /\ Len(settled) = submits)
  /\ [][\A k \in 1..MaxTriggers :
          /\ (calls[k].pc = "fetch" /\ calls'[k].pc # "fetch")
               => \/ /\ calls'[k].pc = "json"
                     /\ calls'[k].response \in ProxyResponses[OPENAI_API_KEY]
                     /\ invocations' = invocations + 1
                  \/ /\ calls'[k].pc = "done"
                     /\ calls'[k].response = NoResponse
                     /\ invocations' = invocations
          /\ (loadingStatus /\ ~loadingStatus')
               => \E j \in 1..MaxTriggers : InFlight(j) /\ calls'[j].pc = "done"]_vars

C28_Witness ==
  /\ submits = MaxTriggers
  /\ Len(settled) = MaxTriggers
  /\ invocations = MaxTriggers - 1
  /\ calls[1].response = NoResponse
  /\ ~loadingStatus
  /\ \A k \in 1..MaxTriggers : Done(k)

\* C29: invocations of GET that run side by side do not interfere: under
\* every interleaving, the status and the body an invocation returns are
\* those GET gives for the outcome of its own outbound call, and its steps
\* leave the other invocations as they are.
C29_InvocationsIndependent ==
  [][\A i \in 1..MaxInvocations :
       /\ gets'[i] # gets[i]
            => \A j \in 1..MaxInvocations \ {i} : gets'[j] = gets[j]
       /\ (gets[i].pc = "json" /\ gets'[i].pc = "done")
            => \E b \in UpstreamWire :
                 gets'[i].response =
                   GETOutput(OPENAI_API_KEY,
                             [threw |-> FALSE, status |-> gets[i].status,
                              body |-> b]).response
       /\ (gets[i].pc = "fetch" /\ gets'[i].pc = "done")
            => gets'[i].response
                 = GETOutput(OPENAI_API_KEY, FetchFailed).response]_vars

C29_Witness ==
  /\ gets[1].pc = "json"
  /\ gets[1].status = 200
  /\ gets[2].pc = "done"
  /\ gets[2].status = 401
  /\ gets[2].response.status = 401
  /\ gets[2].response.body.val.hasError
  /\ createChatCompletionRes.status = 200

\* C30: in Home calling GET, after any sequence of submits and
\* settlements reply is the empty string, or exactly "An error has
\* occurred", or the content of a 200 completion of the service without
\* its leading and trailing whitespace, as GET returned it to a call that
\* has settled.
C30_ReplyValues ==
  \/ reply = Str(<<>>)
  \/ reply = Str(<<"An error has occurred">>)
  \/ /\ reply.t = "string"
     /\ reply.s \in Strings
     /\ Trim(reply.s) = reply.s
     /\ \E k \in 1..MaxTriggers :
          /\ Done(k)
          /\ calls[k].response.status = 200
          /\ calls[k].response.body.val.completion = reply

C30_Witness ==
  /\ settled = <<1, 2>>
  /\ calls[1].reply = Str(<<"An error has occurred">>)
  /\ calls[2].response.status = 200
  /\ reply = Str(<<"a", " ", "a">>)
  /\ ~loadingStatus

====
